---- MODULE Spec2Model ----
(***************************************************************************)
(* Node attributes of A4N (src/A4N/Attributes.hpp): a registry             *)
(* (NodeAttributeMap) of typed, validity-tracked columns                   *)
(* (NodeAttributeStorage<T>) and the handles (NodeAttribute<T>) through    *)
(* which the columns are read and written.                                 *)
(*                                                                         *)
(* A storage is identified by a slot number, a handle by the address of    *)
(* the NodeAttribute object.  Index i of a std::vector is position i + 1   *)
(* of the sequence that models it.                                         *)
(***************************************************************************)
EXTENDS Integers, Sequences, FiniteSets, TLC

\* ---------------------------------------------------------------- bounds
\* MaxIndex and MaxOps bound SpecColumn, MaxLifecycleOps bounds Spec;
\* IndexBits stands for the 64 bits of size_t.
MaxIndex == 2
MaxOps == 3
MaxLifecycleOps == 1
IndexBits == 6

IndexMod == 2 ^ IndexBits

Names == {"a"}
Types == {"int", "double"}
Values == {1, 2}

Addrs == {1, 2}
Slots == {1, 2}
Indices == 0 .. MaxIndex
LifecycleIndices == {0, 1}

\* ------------------------------------------------------------- constants
\* the null pointer, and T{} as std::vector::resize fills new elements
NoStorage == 0
NoHandle == NoStorage
DefaultValue == 0

VARIABLES
    attrMap,        \* NodeAttributeMap::attrMap: name -> storage (NoStorage: no such key)
    nullEntry,      \* a node of attrMap left behind with a reset pointer and a dangling key
    alive,          \* the storages that exist (use count > 0)
    type,           \* NodeAttributeStorageBase::type
    values,         \* NodeAttributeStorage::values
    valid,          \* NodeAttributeStorageBase::valid
    validElements,  \* NodeAttributeStorageBase::validElements
    attrSet,        \* NodeAttributeStorage::attrSet (addresses of handles)
    owned_storage,  \* NodeAttribute::owned_storage, NoStorage where no handle lives
    handleValid,    \* NodeAttribute::valid
    written,        \* history: per column and index, the value last set and not invalidated since
    invalidations,  \* history: per storage, the calls of invalidateAttributes since it was built
    danglingRead,   \* the last call compared a key of attrMap whose storage is released
    budget,         \* how many more set / invalidate calls the run makes
    last            \* the last call and what it returned or threw

regVars == <<attrMap, nullEntry>>
colVars == <<values, valid, validElements>>
storVars == <<alive, type, values, valid, validElements, attrSet, written,
              invalidations>>
handleVars == <<owned_storage, handleValid>>
vars == <<attrMap, nullEntry, alive, type, values, valid, validElements,
          attrSet, written, invalidations, owned_storage, handleValid,
          danglingRead, budget, last>>

\* The record of a call: res is "ok" or the exception, out what it returned.
Call(op, n, t, h, i, v, res, out) ==
    [op |-> op, name |-> n, type |-> t, h |-> h, i |-> i, v |-> v,
     res |-> res, out |-> out]

Running == last.res # "Segfault"

\* ------------------------------------------------ NodeAttributeStorageBase
isValid(s, i) == i < Len(valid[s]) /\ valid[s][i + 1]

Grow(seq, i, fill) ==
    IF i >= Len(seq) THEN seq \o [k \in 1 .. (i + 1 - Len(seq)) |-> fill]
    ELSE seq

markValid(vl, i) == [Grow(vl, i, FALSE) EXCEPT ![i + 1] = TRUE]

Incremented(n) == (n + 1) % IndexMod

Decremented(n) == (n + IndexMod - 1) % IndexMod

InvalidatedBits(vl, i) == IF i < Len(vl) THEN [vl EXCEPT ![i + 1] = FALSE] ELSE vl

\* -------------------------------------------------- NodeAttributeStorage<T>
\* A resize that reallocates without carrying the old elements over.
resizeDropping(vs, i) ==
    IF i >= Len(vs) THEN [k \in 1 .. (i + 1) |-> DefaultValue] ELSE vs

resize(vs, i) == Grow(vs, i, DefaultValue)

StorageSet(vs, i, v) == [resize(vs, i) EXCEPT ![i + 1] = v]

\* A get that tests the range only, not the validity bit.
StorageGetUnchecked(s, i) ==
    IF i >= Len(values[s]) THEN <<>> ELSE <<values[s][i + 1]>>

\* std::optional<T>: <<>> is nullopt, <<v>> holds v
StorageGet(s, i) ==
    IF i >= Len(values[s]) \/ ~isValid(s, i) THEN <<>> ELSE <<values[s][i + 1]>>

StorageSize(s) == validElements[s]

\* An invalidateAttributes that reaches one registered handle only.
invalidateOneAttribute(hv, s) ==
    [a \in Addrs |->
        IF a \in attrSet[s] /\ (\A b \in attrSet[s] : a <= b) THEN FALSE ELSE hv[a]]

\* invalidateAttributes on a flag vector hv: every registered address is
\* written; an address where no handle lives any more holds FALSE already.
invalidateAttributes(hv, s) ==
    [a \in Addrs |-> IF a \in attrSet[s] THEN FALSE ELSE hv[a]]

\* The count of calls once invalidateAttributes ran on each storage of ss.
Called(ic, ss) == [s \in Slots |-> IF s \in ss THEN ic[s] + 1 ELSE ic[s]]

Owners(s, am, os) ==
    Cardinality({n \in Names : am[n] = s}) + Cardinality({a \in Addrs : os[a] = s})

NothingWritten == [i \in Indices |-> <<>>]

\* The registry lists storage s.
Attached(s) == \E n \in Names : attrMap[n] = s

FreeAddrs == {a \in Addrs : owned_storage[a] = NoStorage}
Handles == Addrs \ FreeAddrs
FreeSlots == Slots \ alive
NewSlot == CHOOSE s \in FreeSlots : \A r \in FreeSlots : s <= r

Init ==
    /\ attrMap = [n \in Names |-> NoStorage]
    /\ nullEntry = [n \in Names |-> FALSE]
    /\ alive = {}
    /\ type = [s \in Slots |-> "int"]
    /\ values = [s \in Slots |-> <<>>]
    /\ valid = [s \in Slots |-> <<>>]
    /\ validElements = [s \in Slots |-> 0]
    /\ attrSet = [s \in Slots |-> {}]
    /\ written = [s \in Slots |-> NothingWritten]
    /\ invalidations = [s \in Slots |-> 0]
    /\ owned_storage = [a \in Addrs |-> NoStorage]
    /\ handleValid = [a \in Addrs |-> FALSE]
    /\ danglingRead = FALSE
    /\ budget = MaxLifecycleOps
    /\ last = Call("init", "", "", NoHandle, 0, 0, "ok", <<>>)

\* ------------------------------------------------------ shared ownership
\* A release as soon as the registry gives the storage up, as if the
\* handles held plain pointers.
ReleasedByRegistry(ss, am, os) == {s \in ss : \A n \in Names : am[n] # s}

\* The storages of `ss` whose last std::shared_ptr is gone once the registry
\* is `am` and the handles own `os`.
Released(ss, am, os) == {s \in ss : Owners(s, am, os) = 0}

\* ~NodeAttributeStorage runs invalidateAttributes on each released storage.
FlagsAfterRelease(hv, rel) ==
    [a \in Addrs |-> IF \E s \in rel : a \in attrSet[s] THEN FALSE ELSE hv[a]]

\* A destructor that leaves the handles to the explicit detach.
DestructorSilent(ic, rel) == ic

\* ~NodeAttributeStorage calls invalidateAttributes
DestructorCalled(ic, rel) == Called(ic, rel)

\* The storage fields once the storages `rel` are destroyed; `as` is attrSet
\* as the call left it, `ic` the calls counted before the destructors run.
Destroy(rel, as, ic) ==
    /\ invalidations' = DestructorCalled(ic, rel)
    /\ alive' = alive \ rel
    /\ type' = [s \in Slots |-> IF s \in rel THEN "int" ELSE type[s]]
    /\ values' = [s \in Slots |-> IF s \in rel THEN <<>> ELSE values[s]]
    /\ valid' = [s \in Slots |-> IF s \in rel THEN <<>> ELSE valid[s]]
    /\ validElements' = [s \in Slots |-> IF s \in rel THEN 0 ELSE validElements[s]]
    /\ attrSet' = [s \in Slots |-> IF s \in rel THEN {} ELSE as[s]]
    /\ written' = [s \in Slots |-> IF s \in rel THEN NothingWritten ELSE written[s]]

\* ------------------------------------------------------ NodeAttributeMap
\* attrMap.find / insert on the key `n`.  The key of a node is a view of
\* its storage's name: while the storage exists it compares equal to `n`;
\* once the storage is destroyed the view dangles, and comparing it is
\* undefined: it may match or not.  A node inserted later under the same
\* name is reached first.
Lookups(n) ==
    IF attrMap[n] # NoStorage THEN {"live"}
    ELSE IF nullEntry[n] THEN {"null", "none"}
    ELSE {"none"}

\* find / insert on `n` compare the key of a node whose storage is released.
KeyDangles(n) == attrMap[n] = NoStorage /\ nullEntry[n]

\* NodeAttribute<T>{ownedPtr} built at address a on storage s.
NewHandle(a, s) ==
    /\ owned_storage' = [owned_storage EXCEPT ![a] = s]
    /\ handleValid' = [handleValid EXCEPT ![a] = TRUE]

\* An insert that stores the new storage whether or not the key is there.
InsertedAlways(found) == TRUE

\* `success` of attrMap.insert
Inserted(found) == found = "none"

attach(n, t, a) ==
    /\ Running
    /\ \E found \in Lookups(n) :
         IF Inserted(found)
         THEN /\ FreeSlots # {}
              /\ a \in FreeAddrs
              /\ LET s == NewSlot IN
                   /\ attrMap' = [attrMap EXCEPT ![n] = s]
                   /\ alive' = alive \cup {s}
                   /\ type' = [type EXCEPT ![s] = t]
                   /\ attrSet' = [attrSet EXCEPT ![s] = {a}]
                   /\ invalidations' = [invalidations EXCEPT ![s] = 0]
                   /\ NewHandle(a, s)
                   /\ last' = Call("attach", n, t, a, 0, 0, "ok", <<>>)
              /\ UNCHANGED <<nullEntry, colVars, written, budget>>
         ELSE \* insert finds the key: the fresh storage is destroyed again
              /\ a = NoHandle
              /\ last' = Call("attach", n, t, NoHandle, 0, 0, "DuplicateName", <<>>)
              /\ UNCHANGED <<regVars, storVars, handleVars, budget>>
    /\ danglingRead' = KeyDangles(n)

detach(n) ==
    /\ Running
    /\ \E found \in Lookups(n) :
         CASE found = "none" ->
                /\ last' = Call("detach", n, "", NoHandle, 0, 0, "NotFound", <<>>)
                /\ danglingRead' = KeyDangles(n)
                /\ UNCHANGED <<regVars, storVars, handleVars, budget>>
           [] found = "null" ->
                \* it->second.get() is null: the virtual call dereferences it
                /\ last' = Call("detach", n, "", NoHandle, 0, 0, "Segfault", <<>>)
                /\ danglingRead' = KeyDangles(n)
                /\ UNCHANGED <<regVars, storVars, handleVars, budget>>
           [] found = "live" ->
                LET s == attrMap[n]
                    am == [attrMap EXCEPT ![n] = NoStorage]
                    rel == Released({s}, am, owned_storage)
                IN  /\ handleValid' = invalidateAttributes(handleValid, s)
                    /\ attrMap' = am
                    /\ Destroy(rel, attrSet, Called(invalidations, {s}))
                    \* attrMap.erase(name) compares with the node's key, which
                    \* dangles once the storage is destroyed
                    /\ danglingRead' = (rel # {})
                    /\ \E erased \in (IF rel = {} THEN {TRUE} ELSE BOOLEAN) :
                         nullEntry' = [nullEntry EXCEPT ![n] = @ \/ ~erased]
                    /\ last' = Call("detach", n, "", NoHandle, 0, 0, "ok", <<s>>)
                    /\ UNCHANGED <<owned_storage, budget>>

\* A get that skips the comparison of the type tags.
TypeCheckedAlways(s, t) == TRUE

\* getType() == typeid(T)
TypeChecked(s, t) == type[s] = t

get(n, t, a) ==
    /\ Running
    /\ \E found \in Lookups(n) :
         CASE found = "none" ->
                /\ a = NoHandle
                /\ last' = Call("get", n, t, NoHandle, 0, 0, "NotFound", <<>>)
                /\ UNCHANGED <<regVars, storVars, handleVars, budget>>
           [] found = "null" ->
                /\ a = NoHandle
                /\ last' = Call("get", n, t, NoHandle, 0, 0, "Segfault", <<>>)
                /\ UNCHANGED <<regVars, storVars, handleVars, budget>>
           [] found = "live" ->
                LET s == attrMap[n] IN
                IF ~TypeChecked(s, t)
                THEN /\ a = NoHandle
                     /\ last' = Call("get", n, t, NoHandle, 0, 0, "TypeMismatch", <<>>)
                     /\ UNCHANGED <<regVars, storVars, handleVars, budget>>
                ELSE /\ a \in FreeAddrs
                     /\ NewHandle(a, s)
                     /\ attrSet' = [attrSet EXCEPT ![s] = @ \cup {a}]
                     /\ last' = Call("get", n, t, a, 0, 0, "ok", <<>>)
                     /\ UNCHANGED <<regVars, alive, type, colVars, written, invalidations, budget>>
    /\ danglingRead' = KeyDangles(n)

\* ------------------------------------------------------- NodeAttribute<T>
\* A copy that starts valid, as the handle built from a storage does.
CopiedFlagFresh(src) == TRUE

\* valid{other.valid}
CopiedFlag(src) == handleValid[src]

\* NodeAttribute(NodeAttribute const& other), built at address a
copy(src, a) ==
    /\ Running
    /\ src \in Handles
    /\ a \in FreeAddrs
    /\ LET s == owned_storage[src] IN
         /\ owned_storage' = [owned_storage EXCEPT ![a] = s]
         /\ handleValid' = [handleValid EXCEPT ![a] = CopiedFlag(src)]
         /\ attrSet' = [attrSet EXCEPT ![s] = @ \cup {a}]
         /\ last' = Call("copy", "", "", a, 0, 0, "ok", <<src>>)
    /\ UNCHANGED <<regVars, alive, type, colVars, written, invalidations, budget>>
    /\ danglingRead' = FALSE

\* The implicit copy assignment dst = src: memberwise, owned_storage first
\* (which may destroy the storage dst owned), then valid; attrSet is not
\* touched.
assign(dst, src) ==
    /\ Running
    /\ dst \in Handles
    /\ src \in Handles
    /\ dst # src
    /\ type[owned_storage[dst]] = type[owned_storage[src]]
    /\ LET os == [owned_storage EXCEPT ![dst] = owned_storage[src]]
           rel == Released({owned_storage[dst]}, attrMap, os)
           hv == FlagsAfterRelease(handleValid, rel)
       IN  /\ owned_storage' = os
           /\ handleValid' = [hv EXCEPT ![dst] = handleValid[src]]
           /\ Destroy(rel, attrSet, invalidations)
           /\ last' = Call("assign", "", "", dst, 0, 0, "ok", <<src>>)
    /\ UNCHANGED <<regVars, budget>>
    /\ danglingRead' = FALSE

\* A destructor that clears the set it should erase itself from.
UnregisteredAll(as, s, a) == [as EXCEPT ![s] = {}]

\* owned_storage->attrSet.erase(this)
Unregistered(as, s, a) == [as EXCEPT ![s] = @ \ {a}]

\* ~NodeAttribute
destroy(a) ==
    /\ Running
    /\ a \in Handles
    /\ LET s == owned_storage[a]
           as == Unregistered(attrSet, s, a)
           os == [owned_storage EXCEPT ![a] = NoStorage]
           rel == Released({s}, attrMap, os)
       IN  /\ owned_storage' = os
           /\ handleValid' =
                [b \in Addrs |->
                    IF b = a \/ (\E r \in rel : b \in as[r]) THEN FALSE
                    ELSE handleValid[b]]
           /\ Destroy(rel, as, invalidations)
           /\ last' = Call("destroy", "", "", a, 0, 0, "ok", <<>>)
    /\ UNCHANGED <<regVars, budget>>
    /\ danglingRead' = FALSE

\* checkAttribute
checkAttribute(a) == handleValid[a]

\* The column after storage->set(i, v)
SetColumn(s, i, v) ==
    /\ values' = [values EXCEPT ![s] = StorageSet(@, i, v)]
    /\ valid' = [valid EXCEPT ![s] = markValid(@, i)]
    /\ validElements' = [validElements EXCEPT ![s] = Incremented(@)]
    /\ written' = [written EXCEPT ![s][i] = <<v>>]

\* NodeAttribute::set
set(a, i, v) ==
    /\ Running
    /\ a \in Handles
    /\ IF ~checkAttribute(a)
       THEN /\ last' = Call("set", "", "", a, i, v, "HandleInvalid", <<>>)
            /\ UNCHANGED <<colVars, written, budget>>
       ELSE /\ budget > 0
            /\ SetColumn(owned_storage[a], i, v)
            /\ budget' = budget - 1
            /\ last' = Call("set", "", "", a, i, v, "ok", <<>>)
    /\ UNCHANGED <<regVars, alive, type, attrSet, invalidations, handleVars>>
    /\ danglingRead' = FALSE

\* NodeAttribute::get
handleGet(a, i) ==
    /\ Running
    /\ a \in Handles
    /\ last' = IF ~checkAttribute(a)
               THEN Call("handle.get", "", "", a, i, 0, "HandleInvalid", <<>>)
               ELSE Call("handle.get", "", "", a, i, 0, "ok",
                         <<StorageGet(owned_storage[a], i)>>)
    /\ UNCHANGED <<regVars, storVars, handleVars, budget>>
    /\ danglingRead' = FALSE

\* A checkIndex that tests the range only, not the validity bit.
checkIndexRange(s, i) == i < Len(valid[s])

\* checkIndex
checkIndex(s, i) == isValid(s, i)

\* T x = handle[i]: operator[] and then IndexProxy::operator T
indexRead(a, i) ==
    /\ Running
    /\ a \in Handles
    /\ last' = IF ~checkAttribute(a)
               THEN Call("index.read", "", "", a, i, 0, "HandleInvalid", <<>>)
               ELSE IF ~checkIndex(owned_storage[a], i)
               THEN Call("index.read", "", "", a, i, 0, "NotSet", <<>>)
               ELSE Call("index.read", "", "", a, i, 0, "ok",
                         <<values[owned_storage[a]][i + 1]>>)
    /\ UNCHANGED <<regVars, storVars, handleVars, budget>>
    /\ danglingRead' = FALSE

\* handle[i] = v: operator[] and then IndexProxy::operator=
indexWrite(a, i, v) ==
    /\ Running
    /\ a \in Handles
    /\ IF ~checkAttribute(a)
       THEN /\ last' = Call("index.write", "", "", a, i, v, "HandleInvalid", <<>>)
            /\ UNCHANGED <<colVars, written, budget>>
       ELSE /\ budget > 0
            /\ SetColumn(owned_storage[a], i, v)
            /\ budget' = budget - 1
            /\ last' = Call("index.write", "", "", a, i, v, "ok", <<v>>)
    /\ UNCHANGED <<regVars, alive, type, attrSet, invalidations, handleVars>>
    /\ danglingRead' = FALSE

\* NodeAttribute::size
size(a) ==
    /\ Running
    /\ a \in Handles
    /\ last' = Call("size", "", "", a, 0, 0, "ok", <<StorageSize(owned_storage[a])>>)
    /\ UNCHANGED <<regVars, storVars, handleVars, budget>>
    /\ danglingRead' = FALSE

\* NodeAttributeStorageBase::invalidate, called by the graph on a column it
\* reaches through the registry
invalidate(s, i) ==
    /\ Running
    /\ s \in alive
    /\ Attached(s)
    /\ budget > 0
    /\ valid' = [valid EXCEPT ![s] = InvalidatedBits(@, i)]
    /\ validElements' = [validElements EXCEPT ![s] = Decremented(@)]
    /\ written' = [written EXCEPT ![s][i] = <<>>]
    /\ budget' = budget - 1
    /\ last' = Call("invalidate", "", "", NoHandle, i, 0, "ok", <<s>>)
    /\ UNCHANGED <<regVars, alive, type, values, attrSet, invalidations, handleVars>>
    /\ danglingRead' = FALSE

\* ------------------------------------------------- NodeAttribute::Iterator
\* An iterator is [storage, idx]; storage = NoStorage is the null pointer.
RECURSIVE nextValid(_)
nextValid(it) ==
    IF it.storage # NoStorage /\ ~isValid(it.storage, it.idx)
    THEN IF it.idx >= Len(values[it.storage])
         THEN [it EXCEPT !.storage = NoStorage]
         ELSE nextValid([it EXCEPT !.idx = @ + 1])
    ELSE it

Iterator(s) ==
    LET it == [storage |-> s, idx |-> 0]
    IN  IF s # NoStorage THEN nextValid(it) ELSE it

begin(a) == nextValid(Iterator(owned_storage[a]))

end == Iterator(NoStorage)

\* Iterator::operator==
IteratorEq(x, y) ==
    IF x.storage = NoStorage /\ y.storage = NoStorage THEN TRUE
    ELSE x.storage # NoStorage /\ x.idx = y.idx

\* Iterator::operator++ on an iterator whose storage is not null
Increment(it) == nextValid([it EXCEPT !.idx = @ + 1])

\* Iterator::nodeValuePair
nodeValuePair(it) == <<it.idx, values[it.storage][it.idx + 1]>>

\* for (it = begin(); it != end(); ++it): the pairs the body sees
RECURSIVE Loop(_, _)
Loop(it, seen) ==
    IF IteratorEq(it, end) THEN seen
    ELSE Loop(Increment(it), Append(seen, nodeValuePair(it)))

Traversal(a) == Loop(begin(a), <<>>)

\* The iterator the loop stops at: the first one that compares equal to end()
RECURSIVE LoopEnd(_)
LoopEnd(it) == IF IteratorEq(it, end) THEN it ELSE LoopEnd(Increment(it))

\* operator++ and operator* throw "Invalid attribute iterator"
Throws(it) == it.storage = NoStorage

\* for (auto c : handle)
iterate(a) ==
    /\ Running
    /\ a \in Handles
    /\ last' = Call("iterate", "", "", a, 0, 0, "ok", Traversal(a))
    /\ UNCHANGED <<regVars, storVars, handleVars, budget>>
    /\ danglingRead' = FALSE

\* ------------------------------------------------------------------ Next
\* The calls on a column through its handles, and the graph's invalidate.
ColumnCalls(I) ==
    \/ \E a \in Addrs, i \in I, v \in Values : set(a, i, v)
    \/ \E a \in Addrs, i \in I : handleGet(a, i)
    \/ \E a \in Addrs, i \in I : indexRead(a, i)
    \/ \E a \in Addrs, i \in I, v \in Values : indexWrite(a, i, v)
    \/ \E a \in Addrs : size(a)
    \/ \E a \in Addrs : iterate(a)
    \/ \E s \in Slots, i \in I : invalidate(s, i)

\* Handles made and dropped: NodeAttributeMap::get, the copy constructor and
\* the destructor.
HandleCalls ==
    \/ \E n \in Names, t \in Types, a \in Addrs \cup {NoHandle} : get(n, t, a)
    \/ \E src \in Addrs, a \in Addrs : copy(src, a)
    \/ \E a \in Addrs : destroy(a)

Next ==
    \/ \E n \in Names, t \in Types, a \in Addrs \cup {NoHandle} : attach(n, t, a)
    \/ \E n \in Names : detach(n)
    \/ HandleCalls
    \/ ColumnCalls(LifecycleIndices)

\* The registry and its handles, with few writes to the columns.
Spec == Init /\ [][Next]_vars

\* One attached column, as attach<int>("a") leaves it, and many writes to it.
InitColumn ==
    /\ attrMap = [n \in Names |-> IF n = "a" THEN 1 ELSE NoStorage]
    /\ nullEntry = [n \in Names |-> FALSE]
    /\ alive = {1}
    /\ type = [s \in Slots |-> "int"]
    /\ values = [s \in Slots |-> <<>>]
    /\ valid = [s \in Slots |-> <<>>]
    /\ validElements = [s \in Slots |-> 0]
    /\ attrSet = [s \in Slots |-> IF s = 1 THEN {1} ELSE {}]
    /\ written = [s \in Slots |-> NothingWritten]
    /\ invalidations = [s \in Slots |-> 0]
    /\ owned_storage = [a \in Addrs |-> IF a = 1 THEN 1 ELSE NoStorage]
    /\ handleValid = [a \in Addrs |-> a = 1]
    /\ danglingRead = FALSE
    /\ budget = MaxOps
    /\ last = Call("attach", "a", "int", 1, 0, 0, "ok", <<>>)

NextColumn == HandleCalls \/ ColumnCalls(Indices)

SpecColumn == InitColumn /\ [][NextColumn]_vars

\* With the implicit copy assignment of handles.
NextAssign ==
    \/ Next
    \/ \E dst \in Addrs, src \in Addrs : assign(dst, src)

SpecAssign == Init /\ [][NextAssign]_vars

\* ---------------------------------------------------------------- claims
\* A storage the registry gave up by detach while handles still own it.
Detached(s) == s \in alive /\ ~Attached(s)

HandlesOf(s) == {a \in Handles : owned_storage[a] = s}

ValidIndices(s) == {i \in Indices : isValid(s, i)}

\* The valid indices of a column in ascending order, each with the value
\* last set there.
ValidPairs(s) ==
    LET idx == SelectSeq([k \in 1 .. Len(valid[s]) |-> k - 1],
                         LAMBDA i : valid[s][i + 1])
    IN  [k \in 1 .. Len(idx) |-> <<idx[k], written[s][idx[k]][1]>>]

HandleAccess == {"set", "handle.get", "index.read", "index.write"}

\* C1: once a column is detached, get(i), set(i, v) and handle[i] on every
\* handle obtained for it by attach, get<T> or copy construction throw
\* HandleInvalid, and the call leaves values, validity and validCount as
\* they were.
C1_DetachedHandlesFail ==
    [][ (/\ last'.op \in HandleAccess
         /\ last'.h \in Handles
         /\ Detached(owned_storage[last'.h]))
        => (last'.res = "HandleInvalid" /\ UNCHANGED colVars) ]_vars

C1_Witness ==
    /\ last.op = "set"
    /\ last.res = "HandleInvalid"
    /\ last.h \in Handles
    /\ Detached(owned_storage[last.h])
    /\ Cardinality(HandlesOf(owned_storage[last.h])) = 2
    /\ validElements[owned_storage[last.h]] = 1

\* C2: once a column is detached, iterating over a handle of it throws
\* HandleInvalid and yields nothing.
C2_DetachedIterationFails ==
    (/\ last.op = "iterate"
     /\ last.h \in Handles
     /\ Detached(owned_storage[last.h]))
    => (last.res = "HandleInvalid" /\ last.out = <<>>)

\* C3: a traversal over a live handle yields exactly the valid indices,
\* ascending, each once, with the value last set there; index 0 included.
C3_TraversalYieldsValid ==
    (/\ last.op = "iterate"
     /\ last.h \in Handles
     /\ handleValid[last.h])
    => last.out = ValidPairs(owned_storage[last.h])

\* C4: size() of a column, through every handle of it, is the number of
\* indices whose validity bit is set.
C4_SizeCountsValid ==
    \A a \in Handles :
        StorageSize(owned_storage[a]) = Cardinality(ValidIndices(owned_storage[a]))

\* C5: set(i, v) adds to validCount 1 when index i was invalid or out of
\* range and 0 when it was valid, and makes no other index valid.
C5_SetCountsTransitions ==
    [][ \A a \in Handles : \A i \in Indices :
        (/\ last'.op \in {"set", "index.write"}
         /\ last'.res = "ok"
         /\ last'.h = a
         /\ last'.i = i)
        => /\ StorageSize(owned_storage[a])' =
                (StorageSize(owned_storage[a])
                    + (IF isValid(owned_storage[a], i) THEN 0 ELSE 1)) % IndexMod
           /\ \A j \in Indices \ {i} :
                isValid(owned_storage[a], j)' = isValid(owned_storage[a], j) ]_vars

\* C6: invalidate(i) on an index that is not valid (never set, already
\* invalidated, or beyond the length) leaves validCount and the column as
\* they were.
C6_InvalidateIdempotent ==
    [][ (/\ last'.op = "invalidate"
         /\ ~isValid(last'.out[1], last'.i))
        => UNCHANGED colVars ]_vars

\* C7: get(i) through any live handle of a column returns the value last
\* set at i through any handle of it, as long as i was not invalidated
\* since, whatever was set at other indices meanwhile.
C7_RoundTrip ==
    /\ \A a \in Handles : \A i \in Indices :
         LET s == owned_storage[a] IN
         (handleValid[a] /\ written[s][i] # <<>>) => StorageGet(s, i) = written[s][i]
    /\ (/\ last.op = "handle.get"
        /\ last.res = "ok"
        /\ written[owned_storage[last.h]][last.i] # <<>>)
       => last.out[1] = written[owned_storage[last.h]][last.i]

\* get through the second handle returns what the first one set at index 0
\* before the storage grew.
C7_Witness ==
    /\ last.op = "handle.get"
    /\ last.res = "ok"
    /\ last.h = 2
    /\ last.i = 0
    /\ last.out = << <<2>> >>
    /\ Len(values[owned_storage[last.h]]) > 1

\* C8: get(i) on a live handle returns nullopt, without throwing or
\* changing the column, when i was never set, lies in a gap or beyond the
\* length, or was invalidated and not set again.
C8_GetNone ==
    [][ (/\ last'.op = "handle.get"
         /\ handleValid[last'.h]
         /\ written[owned_storage[last'.h]][last'.i] = <<>>)
        => (/\ last'.res = "ok"
            /\ last'.out = << <<>> >>
            /\ UNCHANGED <<regVars, storVars, handleVars>>) ]_vars

\* get on a tombstone: the slot still holds the value set before.
C8_Witness ==
    /\ last.op = "handle.get"
    /\ last.res = "ok"
    /\ last.out = << <<>> >>
    /\ last.i < Len(values[owned_storage[last.h]])
    /\ values[owned_storage[last.h]][last.i + 1] # DefaultValue
    /\ ~isValid(owned_storage[last.h], last.i)

\* C9: attach on a name that is attached throws DuplicateName and changes
\* neither the registry nor the column nor its handles, which stay valid.
C9_DuplicateAttach ==
    [][ (/\ last'.op = "attach"
         /\ attrMap[last'.name] # NoStorage)
        => (/\ last'.res = "DuplicateName"
            /\ UNCHANGED <<regVars, storVars, handleVars>>
            /\ \A a \in HandlesOf(attrMap[last'.name]) : handleValid'[a]) ]_vars

C9_Witness ==
    /\ last.op = "attach"
    /\ last.res = "DuplicateName"
    /\ attrMap[last.name] # NoStorage
    /\ HandlesOf(attrMap[last.name]) # {}
    /\ validElements[attrMap[last.name]] = 1

\* C10: get<T> on an attached column of another type throws TypeMismatch,
\* makes no handle and changes neither the column nor its handle set nor
\* the flags of its handles.
C10_TypeMismatch ==
    [][ (/\ last'.op = "get"
         /\ attrMap[last'.name] # NoStorage
         /\ type[attrMap[last'.name]] # last'.type)
        => (/\ last'.res = "TypeMismatch"
            /\ last'.h = NoHandle
            /\ UNCHANGED <<regVars, storVars, handleVars>>) ]_vars

C10_Witness ==
    /\ last.op = "get"
    /\ last.res = "TypeMismatch"
    /\ attrMap[last.name] # NoStorage
    /\ HandlesOf(attrMap[last.name]) # {}
    /\ validElements[attrMap[last.name]] = 1

\* C11: detach(name) and get<T>(name) on a name that is not attached (never
\* attached, or detached before) throw NotFound and change neither the
\* registry nor a column nor a handle.
C11_NotFound ==
    [][ (/\ last'.op \in {"detach", "get"}
         /\ attrMap[last'.name] = NoStorage)
        => (/\ last'.res = "NotFound"
            /\ UNCHANGED <<regVars, storVars, handleVars>>) ]_vars

\* C12: attach<U>(name) right after detach(name) succeeds for every U,
\* whether or not handles of the detached column exist; the new column is
\* empty with size() 0, get<U>(name) binds to it, and a write through a
\* handle changes no other column and no handle's flag.
C12_ReattachAfterDetach ==
    [][ /\ (/\ last.op = "detach"
            /\ last.res = "ok"
            /\ last'.op = "attach"
            /\ last'.name = last.name)
           => (/\ last'.res = "ok"
               /\ attrMap'[last'.name] \in alive'
               /\ type'[attrMap'[last'.name]] = last'.type
               /\ values'[attrMap'[last'.name]] = <<>>
               /\ validElements'[attrMap'[last'.name]] = 0
               /\ owned_storage'[last'.h] = attrMap'[last'.name]
               /\ \A b \in Handles : /\ owned_storage'[b] = owned_storage[b]
                                     /\ handleValid'[b] = handleValid[b])
        /\ (last'.op = "get" /\ last'.res = "ok")
           => owned_storage'[last'.h] = attrMap[last'.name]
        /\ (last'.op \in {"set", "index.write"})
           => (/\ \A s \in Slots \ {owned_storage[last'.h]} :
                    /\ values'[s] = values[s]
                    /\ valid'[s] = valid[s]
                    /\ validElements'[s] = validElements[s]
               /\ handleValid' = handleValid) ]_vars

\* C13: a handle that is invalid stays invalid for as long as it exists,
\* whatever attach, get, set, invalidate, copy, destroy or detach is
\* called; and the copy of an invalid handle is invalid.
C13_InvalidForever ==
    [][ /\ \A a \in Handles :
             (~handleValid[a] /\ owned_storage'[a] # NoStorage) => ~handleValid'[a]
        /\ (last'.op = "copy" /\ ~handleValid[last'.out[1]])
           => ~handleValid'[last'.h] ]_vars

\* The copy of a handle that detach invalidated.
C13_Witness ==
    /\ last.op = "copy"
    /\ last.out[1] \in Handles
    /\ ~handleValid[last.out[1]]
    /\ ~handleValid[last.h]
    /\ Detached(owned_storage[last.h])
    /\ attrSet[owned_storage[last.h]] = {last.h, last.out[1]}

\* C14: a storage exists exactly when the registry lists it or a handle
\* owns it: detach with handles outstanding keeps it and its content, the
\* destruction of its last handle releases a detached storage, and the
\* destruction of handles of an attached column keeps it and its content,
\* which a later get<T>(name) binds to.
C14_SharedOwnership ==
    [][ /\ \A s \in Slots :
             (s \in alive') <=> (Attached(s)' \/ HandlesOf(s)' # {})
        /\ \A s \in alive :
             (/\ last'.op \in {"detach", "destroy", "get"}
              /\ s \in alive')
             => (/\ values'[s] = values[s]
                 /\ valid'[s] = valid[s]
                 /\ validElements'[s] = validElements[s]
                 /\ type'[s] = type[s])
        /\ (/\ last'.op = "detach"
            /\ last'.res = "ok"
            /\ HandlesOf(last'.out[1]) # {})
           => last'.out[1] \in alive'
        /\ \A a \in Handles :
             (last'.op = "destroy" /\ last'.h = a)
             => ((owned_storage[a] \in alive')
                    <=> (Attached(owned_storage[a]) \/ HandlesOf(owned_storage[a]) # {a}))
        /\ (last'.op = "get" /\ last'.res = "ok")
           => (/\ attrMap[last'.name] \in alive
               /\ owned_storage'[last'.h] = attrMap[last'.name]) ]_vars

\* An attached column whose handles are all destroyed keeps what was set.
C14_Witness ==
    /\ last.op = "destroy"
    /\ attrMap["a"] \in alive
    /\ HandlesOf(attrMap["a"]) = {}
    /\ validElements[attrMap["a"]] = 1
    /\ \E i \in Indices : written[attrMap["a"]][i] # <<>>

C16_HandlesIndependent ==
    [][ /\ \A src \in Handles :
             (last'.op = "copy" /\ last'.out[1] = src /\ handleValid[src])
             => (/\ last'.h \notin Handles
                 /\ handleValid'[last'.h]
                 /\ handleValid'[src]
                 /\ owned_storage'[last'.h] = owned_storage[src]
                 /\ attrSet'[owned_storage[src]]
                        = attrSet[owned_storage[src]] \cup {last'.h}
                 /\ UNCHANGED <<regVars, colVars>>)
        /\ \A a \in Handles :
             (last'.op = "destroy" /\ last'.h = a)
             => (/\ UNCHANGED regVars
                 /\ a \notin Handles'
                 /\ \A b \in Handles \ {a} :
                      /\ owned_storage'[b] = owned_storage[b]
                      /\ handleValid'[b] = handleValid[b]
                 /\ \A s \in alive' :
                      /\ attrSet'[s] = attrSet[s] \ {a}
                      /\ values'[s] = values[s]
                      /\ valid'[s] = valid[s]
                      /\ validElements'[s] = validElements[s]) ]_vars

\* One of two handles of the first column is destroyed: the other one is
\* valid and registered, and the column holds what was set.
C16_Witness ==
    /\ last.op = "destroy"
    /\ alive = {1}
    /\ invalidations = [s \in Slots |-> 0]
    /\ \E b \in Handles : handleValid[b] /\ attrSet[1] = {b}
    /\ validElements[1] = 1

\* C17: on a live handle, reading handle[i] returns the value last set at
\* i when i is valid and throws NotSet, which is not HandleInvalid, when i
\* was never set or is invalidated, and changes nothing; handle[i] = v does
\* what set(i, v) does: i holds v and is valid, the other indices keep
\* their values and validity, and size() is counted up.
C17_IndexProxy ==
    [][ \A a \in Handles : \A i \in Indices :
        LET s == owned_storage[a] IN
        /\ (/\ last'.op = "index.read"
            /\ last'.h = a
            /\ last'.i = i
            /\ handleValid[a])
           => (/\ UNCHANGED <<regVars, storVars, handleVars>>
               /\ IF written[s][i] # <<>>
                  THEN last'.res = "ok" /\ last'.out = written[s][i]
                  ELSE last'.res = "NotSet" /\ last'.out = <<>>)
        /\ (/\ last'.op = "index.write"
            /\ last'.h = a
            /\ last'.i = i
            /\ handleValid[a])
           => (/\ last'.res = "ok"
               /\ UNCHANGED <<regVars, handleVars, alive, type, attrSet>>
               /\ i < Len(values'[s]) /\ values'[s][i + 1] = last'.v
               /\ i < Len(valid'[s]) /\ valid'[s][i + 1]
               /\ written'[s][i] = <<last'.v>>
               /\ validElements'[s] = Incremented(validElements[s])
               /\ \A j \in Indices \ {i} :
                    /\ written'[s][j] = written[s][j]
                    /\ (j < Len(valid'[s]) /\ valid'[s][j + 1]) = isValid(s, j)
                    /\ j < Len(values[s]) => values'[s][j + 1] = values[s][j + 1]
               /\ \A r \in Slots \ {s} :
                    /\ values'[r] = values[r]
                    /\ valid'[r] = valid[r]
                    /\ validElements'[r] = validElements[r]) ]_vars

\* handle[i] read on a tombstone: the slot still holds the old value.
C17_Witness ==
    /\ last.op = "index.read"
    /\ last.res = "NotSet"
    /\ handleValid[last.h]
    /\ last.i < Len(values[owned_storage[last.h]])
    /\ values[owned_storage[last.h]][last.i + 1] # DefaultValue
    /\ ~isValid(owned_storage[last.h], last.i)

\* C18: a traversal of a column, from begin() by ++, reaches an iterator
\* that compares equal to end() after at most len(values) advances, for
\* every pattern of valid indices; on that iterator ++ and * throw.
C18_TraversalEnds ==
    (last.op = "iterate" /\ last.h \in Handles)
    => (/\ Len(last.out) <= Len(values[owned_storage[last.h]])
        /\ IteratorEq(LoopEnd(begin(last.h)), end)
        /\ Throws(LoopEnd(begin(last.h))))

\* C19: whatever attach, get<T>, copy construction, copy assignment,
\* destruction and detach were called, the set of handles registered with
\* each column is the set of the existing handles that own it.
C19_RegisteredAreOwners ==
    \A s \in alive : attrSet[s] = HandlesOf(s)

\* C20: no call compares a key of the registry whose storage is released;
\* in detach(name) on a column without handles, the reset that releases
\* the storage is not followed by an erase that compares the released key.
C20_KeyNeverReadAfterRelease ==
    ~danglingRead

====
